---- MODULE Spec2Model ----
(***************************************************************************)
(* text2longimage (src/text2longimage/src/lib.rs): width classification,  *)
(* CJK and word wrapping, per-line justification, chunked justification,  *)
(* input validation and text statistics.                                  *)
(*                                                                         *)
(* A text is a sequence of Unicode code points (Rust's text.chars()); its  *)
(* byte length is the length of its UTF-8 encoding (Rust's text.len()).    *)
(* Widths and lengths are u32/usize in the source; every quantity of the   *)
(* model stays below 2^31, so no addition wraps.                           *)
(***************************************************************************)
EXTENDS Integers, Sequences, FiniteSets, TLC

\* ------------------------------------------------------------------ bounds
MaxLen == 3
MaxWidth == 4
MaxChunk == 4
MaxResultLen == 24

\* ------------------------------------------------------------- code points
LF == 10
CR == 13
SP == 32

\* The code points texts are drawn from: '\n', '\r', ' ', 'a' (1 byte, width 1),
\* U+00E9 (2 bytes, width 1), U+4F60 (3 bytes, width 2, CJK).
Chars == {LF, CR, SP, 97, 233, 20320}

Texts == UNION {[1..n -> Chars] : n \in 0..MaxLen}
Widths == 0..MaxWidth
ChunkSizes == 0..MaxChunk

CRLF == <<CR, LF>>

\* ------------------------------------------------------- CharacterClassifier
is_cjk_char(c) ==
    \/ (c >= 19968 /\ c <= 40959)
    \/ (c >= 12352 /\ c <= 12447)
    \/ (c >= 12448 /\ c <= 12543)
    \/ (c >= 13312 /\ c <= 19903)
    \/ (c >= 131072 /\ c <= 173791)

is_cjk(text) == \E i \in 1..Len(text) : is_cjk_char(text[i])

get_char_width(c) == IF c <= 255 THEN 1 ELSE 2

\* char::len_utf8
len_utf8(c) ==
    IF c < 128 THEN 1 ELSE IF c < 2048 THEN 2 ELSE IF c < 65536 THEN 3 ELSE 4

\* str::len: the byte length
RECURSIVE str_len(_)
str_len(text) ==
    IF text = <<>> THEN 0 ELSE len_utf8(Head(text)) + str_len(Tail(text))

\* char::is_whitespace (the Unicode White_Space property)
is_whitespace(c) ==
    \/ (c >= 9 /\ c <= 13)
    \/ c \in {32, 133, 160, 5760, 8232, 8233, 8239, 8287, 12288}
    \/ (c >= 8192 /\ c <= 8202)

RECURSIVE trim_start(_)
trim_start(s) ==
    IF s # <<>> /\ is_whitespace(Head(s)) THEN trim_start(Tail(s)) ELSE s

RECURSIVE trim_end(_)
trim_end(s) ==
    IF s # <<>> /\ is_whitespace(s[Len(s)])
    THEN trim_end(SubSeq(s, 1, Len(s) - 1))
    ELSE s

\* str::trim
trim(s) == trim_end(trim_start(s))

\* acc are the pieces closed so far, cur the piece being read
RECURSIVE split_on(_, _, _, _)
split_on(s, sep, acc, cur) ==
    IF s = <<>> THEN Append(acc, cur)
    ELSE IF Head(s) = sep THEN split_on(Tail(s), sep, Append(acc, cur), <<>>)
    ELSE split_on(Tail(s), sep, acc, Append(cur, Head(s)))

\* text.split('\n'): one more piece than there are '\n'
split_lf(text) == split_on(text, LF, <<>>, <<>>)

RECURSIVE words_of(_, _, _)
words_of(s, acc, cur) ==
    IF s = <<>> THEN (IF cur = <<>> THEN acc ELSE Append(acc, cur))
    ELSE IF is_whitespace(Head(s))
         THEN words_of(Tail(s), IF cur = <<>> THEN acc ELSE Append(acc, cur), <<>>)
         ELSE words_of(Tail(s), acc, Append(cur, Head(s)))

\* str::split_whitespace
split_whitespace(text) == words_of(text, <<>>, <<>>)

\* [String]::join("\r\n")
RECURSIVE join_crlf(_)
join_crlf(ls) ==
    IF ls = <<>> THEN <<>>
    ELSE IF Len(ls) = 1 THEN ls[1]
    ELSE ls[1] \o CRLF \o join_crlf(Tail(ls))

\* ------------------------------------------------------ LineBreaker, CJK mode
\* the test with every character counted as one unit wide
cjk_exceeds_unit_width(current_line_width, char_width, max_chars_per_line) ==
    current_line_width + 1 > max_chars_per_line

cjk_exceeds(current_line_width, char_width, max_chars_per_line) ==
    current_line_width + char_width > max_chars_per_line

RECURSIVE cjk_loop(_, _, _, _)
cjk_loop(s, max_chars_per_line, current_line_width, result) ==
    IF s = <<>> THEN result
    ELSE LET c == Head(s) IN
         IF c = CR \/ c = LF
         THEN cjk_loop(Tail(s), max_chars_per_line, 0, result \o CRLF)
         ELSE LET char_width == get_char_width(c) IN
              IF cjk_exceeds(current_line_width, char_width, max_chars_per_line)
              THEN cjk_loop(Tail(s), max_chars_per_line, char_width,
                            (result \o CRLF) \o <<c>>)
              ELSE cjk_loop(Tail(s), max_chars_per_line,
                            current_line_width + char_width, result \o <<c>>)

justify_text_cjk(text, max_chars_per_line) ==
    cjk_loop(text, max_chars_per_line, 0, <<>>)

\* ----------------------------------------------------- LineBreaker, word mode
\* the test without the separating space
english_fits_no_space(current_len, space_needed, word_len, max_chars_per_line) ==
    current_len + word_len <= max_chars_per_line

english_fits(current_len, space_needed, word_len, max_chars_per_line) ==
    current_len + space_needed + word_len <= max_chars_per_line

RECURSIVE english_loop(_, _, _, _)
english_loop(words, max_chars_per_line, lines, current_line) ==
    IF words = <<>>
    THEN (IF current_line # <<>> THEN Append(lines, current_line) ELSE lines)
    ELSE LET word == Head(words)
             word_len == str_len(word)
             space_needed == IF current_line = <<>> THEN 0 ELSE 1
         IN IF english_fits(str_len(current_line), space_needed, word_len,
                            max_chars_per_line)
            THEN english_loop(Tail(words), max_chars_per_line, lines,
                              IF current_line # <<>>
                              THEN (current_line \o <<SP>>) \o word
                              ELSE word)
            ELSE english_loop(Tail(words), max_chars_per_line,
                              IF current_line # <<>>
                              THEN Append(lines, current_line) ELSE lines,
                              word)

english_lines(text, max_chars_per_line) ==
    english_loop(split_whitespace(text), max_chars_per_line, <<>>, <<>>)

justify_text_english(text, max_chars_per_line) ==
    join_crlf(english_lines(text, max_chars_per_line))

\* ------------------------------------------------------------------ Justifier
justify_line(line, max_chars_per_line) ==
    LET trimmed_line == trim(line) IN
    IF trimmed_line = <<>> THEN <<>>
    ELSE IF is_cjk(trimmed_line)
         THEN justify_text_cjk(trimmed_line, max_chars_per_line)
         ELSE justify_text_english(trimmed_line, max_chars_per_line)

justify_text(text, max_chars_per_line) ==
    LET lines == split_lf(text) IN
    join_crlf([i \in 1..Len(lines) |-> justify_line(lines[i], max_chars_per_line)])

\* ------------------------------------------------------------- ChunkProcessor
\* The byte offsets at which a code point of text starts, and the end of text.
char_boundaries(text) == {str_len(SubSeq(text, 1, k)) : k \in 0..Len(text)}

is_char_boundary(text, index) == index \in char_boundaries(text)

\* &text[begin..end] for begin and end on code point boundaries
byte_slice(text, begin, end) ==
    LET i == CHOOSE k \in 0..Len(text) : str_len(SubSeq(text, 1, k)) = begin
        j == CHOOSE k \in 0..Len(text) : str_len(SubSeq(text, 1, k)) = end
    IN SubSeq(text, i + 1, j)

ends_with_crlf(s) == Len(s) >= 2 /\ SubSeq(s, Len(s) - 1, Len(s)) = CRLF

Min(a, b) == IF a <= b THEN a ELSE b

chunk_end(begin, size, text_len) == Min(begin + size, text_len)

\* what one iteration of the chunk loop appends to result
chunk_output(text, max_chars_per_line, begin, end) ==
    LET justified_chunk == justify_text(byte_slice(text, begin, end), max_chars_per_line)
    IN IF end < str_len(text) /\ ~ends_with_crlf(justified_chunk)
       THEN justified_chunk \o CRLF
       ELSE justified_chunk

\* the direct return without justification
direct_result_unwrapped(text, max_chars_per_line) == text

direct_result(text, max_chars_per_line) == justify_text(text, max_chars_per_line)

\* ---------------------------------------------------- validation and statistics
MaxTextLen == 500000

\* A text of rle.count copies of the code point rle.char.
rle_len(rle) == rle.count * len_utf8(rle.char)

validate_text_input(rle) ==
    IF rle_len(rle) = 0 THEN "Text cannot be empty"
    ELSE IF rle_len(rle) > MaxTextLen
         THEN "Text too large: maximum 500,000 characters supported"
         ELSE ""

RECURSIVE calculate_text_width(_)
calculate_text_width(text) ==
    IF text = <<>> THEN 0
    ELSE get_char_width(Head(text)) + calculate_text_width(Tail(text))

\* str::lines: the pieces between '\n', without a last empty piece; a piece that
\* a '\n' ended also loses one '\r' before it.
lines(text) ==
    LET pieces == split_lf(text)
        n == Len(pieces)
        kept == IF pieces[n] = <<>> THEN n - 1 ELSE n
    IN [i \in 1..kept |->
           IF i < n /\ pieces[i] # <<>> /\ pieces[i][Len(pieces[i])] = CR
           THEN SubSeq(pieces[i], 1, Len(pieces[i]) - 1)
           ELSE pieces[i]]

\* the count of the pieces text.split('\n') yields
line_count_by_split(text) == Len(split_lf(text))

line_count(text) == Len(lines(text))

get_text_stats(text) ==
    [charCount |-> Len(text),
     byteCount |-> str_len(text),
     lineCount |-> line_count(text),
     cjkCount |-> Cardinality({i \in 1..Len(text) : is_cjk_char(text[i])}),
     asciiCount |-> Cardinality({i \in 1..Len(text) : text[i] <= 255}),
     displayWidth |-> calculate_text_width(text),
     hasCjk |-> is_cjk(text)]

\* ---------------------------------------------------------------------- state
VARIABLES
    pc,                  \* "idle", "loop" (in the chunk loop), "done", "panic", "oom"
    fn,                  \* the entry point called
    text,                \* its text argument
    max_chars_per_line,  \* its width argument
    chunk_size,          \* process_text_chunks: chunk size in bytes
    start,               \* process_text_chunks: byte offset of the next chunk
    result,              \* the wrapped text built or returned
    first,               \* the result of the first of two justify_text passes
    rle_text,            \* validate_text_input: its text, run-length encoded
    message,             \* validate_text_input: the reason returned
    stats                \* get_text_stats: the record returned

vars == <<pc, fn, text, max_chars_per_line, chunk_size, start, result, first,
          rle_text, message, stats>>

NoStats == get_text_stats(<<>>)

\* the character counts validate_text_input is called with
RleCounts == {0, 1, 2, 166666, 166667, 250000, 250001, 499999, 500000, 500001}

Init ==
    /\ pc = "idle"
    /\ fn = "none"
    /\ text = <<>>
    /\ max_chars_per_line = 0
    /\ chunk_size = 0
    /\ start = 0
    /\ result = <<>>
    /\ first = <<>>
    /\ rle_text = [char |-> 97, count |-> 0]
    /\ message = ""
    /\ stats = NoStats

Call(name, t, m) ==
    /\ fn' = name
    /\ text' = t
    /\ max_chars_per_line' = m

CallJustifyCjk ==
    /\ pc = "idle"
    /\ \E t \in Texts, m \in Widths :
        /\ Call("justify_text_cjk", t, m)
        /\ result' = justify_text_cjk(t, m)
        /\ pc' = "done"
        /\ UNCHANGED <<chunk_size, start, first, rle_text, message, stats>>

CallJustifyEnglish ==
    /\ pc = "idle"
    /\ \E t \in Texts, m \in Widths :
        /\ Call("justify_text_english", t, m)
        /\ result' = justify_text_english(t, m)
        /\ pc' = "done"
        /\ UNCHANGED <<chunk_size, start, first, rle_text, message, stats>>

CallJustify ==
    /\ pc = "idle"
    /\ \E t \in Texts, m \in Widths :
        /\ Call("justify_text", t, m)
        /\ result' = justify_text(t, m)
        /\ pc' = "done"
        /\ UNCHANGED <<chunk_size, start, first, rle_text, message, stats>>

\* justify_text called on what justify_text returned, with the same width
CallJustifyAgain ==
    /\ pc = "done"
    /\ fn = "justify_text"
    /\ fn' = "justify_text_again"
    /\ text' = result
    /\ first' = result
    /\ result' = justify_text(result, max_chars_per_line)
    /\ UNCHANGED <<pc, max_chars_per_line, chunk_size, start, rle_text, message, stats>>

\* process_text_chunks up to its loop: the direct return, or the loop's set-up
CallProcessChunks ==
    /\ pc = "idle"
    /\ \E t \in Texts, m \in Widths, size \in ChunkSizes :
        /\ Call("process_text_chunks", t, m)
        /\ chunk_size' = size
        /\ start' = 0
        /\ IF str_len(t) <= size
         THEN result' = direct_result(t, m) /\ pc' = "done"
         ELSE result' = <<>> /\ pc' = "loop"
        /\ UNCHANGED <<first, rle_text, message, stats>>

\* one iteration whose slice ends inside a code point: the slice panics
ChunkSlicePanic ==
    /\ pc = "loop"
    /\ start < str_len(text)
    /\ ~is_char_boundary(text, chunk_end(start, chunk_size, str_len(text)))
    /\ pc' = "panic"
    /\ UNCHANGED <<fn, text, max_chars_per_line, chunk_size, start, result, first,
                   rle_text, message, stats>>

\* one iteration of the chunk loop
ChunkStep ==
    /\ pc = "loop"
    /\ start < str_len(text)
    /\ LET end == chunk_end(start, chunk_size, str_len(text)) IN
        /\ is_char_boundary(text, end)
        /\ LET grown == result \o chunk_output(text, max_chars_per_line, start, end) IN
            /\ Len(grown) <= MaxResultLen
            /\ result' = grown
        /\ start' = end
    /\ UNCHANGED <<pc, fn, text, max_chars_per_line, chunk_size, first, rle_text,
                   message, stats>>

\* one iteration for which result cannot grow any more: the allocation aborts
ChunkOutOfMemory ==
    /\ pc = "loop"
    /\ start < str_len(text)
    /\ LET end == chunk_end(start, chunk_size, str_len(text)) IN
        /\ is_char_boundary(text, end)
        /\ Len(result \o chunk_output(text, max_chars_per_line, start, end)) > MaxResultLen
    /\ pc' = "oom"
    /\ UNCHANGED <<fn, text, max_chars_per_line, chunk_size, start, result, first,
                   rle_text, message, stats>>

\* the loop's exit and the return of result
ChunkReturn ==
    /\ pc = "loop"
    /\ ~(start < str_len(text))
    /\ pc' = "done"
    /\ UNCHANGED <<fn, text, max_chars_per_line, chunk_size, start, result, first,
                   rle_text, message, stats>>

CallValidate ==
    /\ pc = "idle"
    /\ \E c \in Chars, n \in RleCounts :
        /\ fn' = "validate_text_input"
        /\ rle_text' = [char |-> c, count |-> n]
        /\ message' = validate_text_input([char |-> c, count |-> n])
        /\ pc' = "done"
        /\ UNCHANGED <<text, max_chars_per_line, chunk_size, start, result, first, stats>>

CallStats ==
    /\ pc = "idle"
    /\ \E t \in Texts :
        /\ fn' = "get_text_stats"
        /\ text' = t
        /\ stats' = get_text_stats(t)
        /\ pc' = "done"
        /\ UNCHANGED <<max_chars_per_line, chunk_size, start, result, first, rle_text,
                     message>>

Next ==
    \/ CallJustifyCjk
    \/ CallJustifyEnglish
    \/ CallJustify
    \/ CallJustifyAgain
    \/ CallProcessChunks
    \/ ChunkSlicePanic
    \/ ChunkStep
    \/ ChunkOutOfMemory
    \/ ChunkReturn
    \/ CallValidate
    \/ CallStats

Spec == Init /\ [][Next]_vars

\* ------------------------------------------------------------ claim vocabulary
Returned(name) == pc = "done" /\ fn = name

\* The output lines of a wrapped text: its maximal segments between "\r\n".
RECURSIVE split_crlf(_, _, _)
split_crlf(s, acc, cur) ==
    IF s = <<>> THEN Append(acc, cur)
    ELSE IF Len(s) >= 2 /\ SubSeq(s, 1, 2) = CRLF
         THEN split_crlf(SubSeq(s, 3, Len(s)), Append(acc, cur), <<>>)
         ELSE split_crlf(Tail(s), acc, Append(cur, Head(s)))

OutputLines(s) == split_crlf(s, <<>>, <<>>)

Range(f) == {f[i] : i \in DOMAIN f}

IsTerminator(c) == c = CR \/ c = LF

HasTerminator(s) == \E i \in 1..Len(s) : IsTerminator(s[i])

\* The line terminators of a text: each "\r\n" pair, lone '\r' and lone '\n'.
TerminatorCount(s) ==
    Cardinality({i \in 1..Len(s) :
                    /\ IsTerminator(s[i])
                    /\ ~(s[i] = LF /\ i > 1 /\ s[i - 1] = CR)})

CountLF(s) == Cardinality({i \in 1..Len(s) : s[i] = LF})

\* words joined by single spaces
RECURSIVE JoinSpaces(_)
JoinSpaces(ws) ==
    IF ws = <<>> THEN <<>>
    ELSE IF Len(ws) = 1 THEN ws[1]
    ELSE ws[1] \o <<SP>> \o JoinSpaces(Tail(ws))

\* ----------------------------------------------------------------------- claims

\* C1: every output line of justify_text_cjk of at least 2 characters has a
\* display width of at most max_chars_per_line, for every positive width.
C1_CjkLinesWithinWidth ==
    (Returned("justify_text_cjk") /\ max_chars_per_line >= 1) =>
        \A line \in Range(OutputLines(result)) :
            Len(line) >= 2 => calculate_text_width(line) <= max_chars_per_line

\* a wrapped text with a line of 2 characters that fills the width exactly
C1_Witness ==
    /\ Returned("justify_text_cjk")
    /\ max_chars_per_line >= 1
    /\ ~HasTerminator(text)
    /\ Len(OutputLines(result)) >= 2
    /\ \E line \in Range(OutputLines(result)) :
           Len(line) >= 2 /\ calculate_text_width(line) = max_chars_per_line

\* C2: every output line of justify_text_english of at least 2 words is its words
\* joined by single spaces and at most max_chars_per_line long; no word is split,
\* and a word longer than max_chars_per_line is alone on its line.
C2_EnglishLinesWithinWidth ==
    (Returned("justify_text_english") /\ max_chars_per_line >= 1) =>
        /\ split_whitespace(result) = split_whitespace(text)
        /\ \A line \in Range(OutputLines(result)) :
               LET words == split_whitespace(line) IN
               /\ line = JoinSpaces(words)
               /\ Len(words) >= 2 => str_len(line) <= max_chars_per_line
               /\ \A w \in Range(words) :
                      str_len(w) > max_chars_per_line => line = w

\* a line of 2 words that fills the width exactly
C2_Witness ==
    /\ Returned("justify_text_english")
    /\ max_chars_per_line >= 1
    /\ \E line \in Range(OutputLines(result)) :
           /\ Len(split_whitespace(line)) >= 2
           /\ str_len(line) = max_chars_per_line

\* C3: process_text_chunks terminates for every input: the chunk loop reaches the
\* end of the text after finitely many iterations. The loop ends when start, which
\* no iteration decreases, reaches the byte length of the text, and an iteration
\* depends on start, text and chunk_size alone: the loop is finite exactly when
\* every iteration that stays in it moves start forward.
C3_ChunkLoopTerminates ==
    [][(pc = "loop" /\ pc' = "loop") => start' > start]_vars

\* C4: process_text_chunks does not abort for a chunk_size smaller than the byte
\* length of the text, wherever the chunk boundaries fall.
C4_ChunkedNeverAborts ==
    (fn = "process_text_chunks" /\ chunk_size < str_len(text)) => pc # "panic"

\* C5: justify_text applied to its own output with the same width gives the same
\* sequence of output lines (stated for the widths of at least 2, which hold every
\* single character, so that the empty line of C10 plays no part).
C5_JustifyIdempotent ==
    (Returned("justify_text_again") /\ max_chars_per_line >= 2) =>
        OutputLines(result) = OutputLines(first)

\* C6: every line terminator of the input of justify_text_cjk ("\r\n", lone '\r',
\* lone '\n') yields exactly one "\r\n" in the output (stated where no line is
\* wrapped, so that every "\r\n" of the output comes from a terminator).
C6_TerminatorsNotDuplicated ==
    (Returned("justify_text_cjk") /\ calculate_text_width(text) <= max_chars_per_line) =>
        Len(OutputLines(result)) - 1 = TerminatorCount(text)

\* C7: with chunk_size at least the byte length of the text, process_text_chunks
\* returns exactly justify_text of the text.
C7_LargeChunkIsDirect ==
    (Returned("process_text_chunks") /\ chunk_size >= str_len(text)) =>
        result = justify_text(text, max_chars_per_line)

\* a text that is wrapped, in a chunk exactly as long as the text
C7_Witness ==
    /\ Returned("process_text_chunks")
    /\ chunk_size = str_len(text)
    /\ ~HasTerminator(text)
    /\ Len(OutputLines(result)) >= 2

\* C8 as stated: lineCount is the number of '\n' of the text plus 1, the number of
\* logical lines justify_text splits the text into.
C8_LineCountIsTerminatorsPlusOne ==
    Returned("get_text_stats") =>
        /\ stats.lineCount = CountLF(text) + 1
        /\ stats.lineCount = Len(split_lf(text))

\* C8 as amended: lineCount is the number of '\n' of the text, plus 1 when the
\* text is not empty and does not end in '\n'; it is at most the number of
\* logical lines justify_text splits the text into.
C8_LineCountIsLinesCount ==
    Returned("get_text_stats") =>
        /\ stats.lineCount =
               CountLF(text) + (IF text # <<>> /\ text[Len(text)] # LF THEN 1 ELSE 0)
        /\ stats.lineCount <= Len(split_lf(text))

\* a text that ends in '\n' after a line, and so counts one line fewer
C8_Witness ==
    /\ Returned("get_text_stats")
    /\ Len(text) >= 2
    /\ text[Len(text)] = LF
    /\ stats.lineCount = CountLF(text)
    /\ stats.lineCount < Len(split_lf(text))

\* C9: validate_text_input returns the empty string exactly when the text has
\* between 1 and 500,000 characters.
C9_ValidIffCharCountInRange ==
    Returned("validate_text_input") =>
        (message = "" <=> (rle_text.count >= 1 /\ rle_text.count <= MaxTextLen))

\* C10: for a non-empty text without '\r' and '\n' and a positive width, the
\* result of justify_text_cjk does not start with "\r\n" and holds no two
\* consecutive "\r\n".
C10_CjkNoEmptyLine ==
    (/\ Returned("justify_text_cjk")
     /\ max_chars_per_line >= 1
     /\ text # <<>>
     /\ ~HasTerminator(text)) =>
        /\ ~(Len(result) >= 2 /\ SubSeq(result, 1, 2) = CRLF)
        /\ \A i \in 1..Len(result) :
               ~(i + 3 <= Len(result) /\ SubSeq(result, i, i + 3) = CRLF \o CRLF)

====
